---- MODULE Spec2Model ----
(***************************************************************************)
(* Model of src/generate_site.py: the walk over the commits of the data    *)
(* repository (lines 102-125), the two global rankings (lines 127-136),    *)
(* the per-topic report loop (lines 138-269) and the main page (lines      *)
(* 271-376).                                                               *)
(*                                                                         *)
(* A Python dict is a sequence of [k, v] entries in insertion order; a     *)
(* decoded JSON object is a function from the field names it has to their  *)
(* values, so that a subscript on a missing field is a KeyError.  The      *)
(* repository is delivered one tree entry at a time and recorded in        *)
(* `history`; a second call of main in the same process reads the same     *)
(* history again.                                                          *)
(*                                                                         *)
(* matplotlib, wordcloud and the file system are taken to succeed: the     *)
(* only exceptions modelled are those the source itself raises, a failed   *)
(* JSON decode or tree lookup (lines 111-119) and a KeyError on a          *)
(* subscript.  Dict iteration is insertion order (Python 3.7 and later).   *)
(***************************************************************************)
EXTENDS Integers, Sequences, FiniteSets, TLC

VARIABLES
    pc,                          \* "walk", "report", "done", "error"
    error,                       \* source line of the uncaught exception, 0 if none
    runs,                        \* number of calls of main so far
    history,                     \* the entries of the repository, in walk order
    walked,                      \* how many entries of history this call has read
    commit,                      \* <<commit_time>> of the commit being walked
    topic,                       \* <<topic>> of the topic tree being walked
    topic_by_id,
    comment_by_id,
    comment_ids_by_topic_id,
    replies_by_comment_id,       \* module-level (line 63)
    scores_by_comment_id,        \* module-level (line 64)
    comments_sorted_by_replies,
    comments_sorted_by_score,
    reported,                    \* topics of topic_by_id the report loop has taken
    views,                       \* per reported topic: comment_ids and its two rankings
    artifacts,                   \* files written to html_dir, in order
    walk_results                 \* the stores as each call of main left its walk

vars == <<pc, error, runs, history, walked, commit, topic, topic_by_id,
          comment_by_id, comment_ids_by_topic_id, replies_by_comment_id,
          scores_by_comment_id, comments_sorted_by_replies,
          comments_sorted_by_score, reported, views, artifacts, walk_results>>

(* Bounds *)
MaxEvents == 6
MaxTime == 1
MaxScore == 1
MaxReplies == 1
NumTopicIds == 2
NumCommentIds == 2
NumTitles == 1
MaxRuns == 2

TopicIds == 1..NumTopicIds
CommentIds == 1..NumCommentIds

(***************************************************************************)
(* Python dict, insertion ordered                                          *)
(***************************************************************************)
DictKeys(d) == {d[i].k : i \in DOMAIN d}

DictHas(d, key) == key \in DictKeys(d)

DictGet(d, key) == d[CHOOSE i \in DOMAIN d : d[i].k = key].v

\* d[key] = value
DictSet(d, key, value) ==
    IF DictHas(d, key)
    THEN [i \in DOMAIN d |-> IF d[i].k = key THEN [k |-> key, v |-> value] ELSE d[i]]
    ELSE Append(d, [k |-> key, v |-> value])

\* d.setdefault(key, []).append(x)
SetDefaultAppend(d, key, x) ==
    DictSet(d, key, Append(IF DictHas(d, key) THEN DictGet(d, key) ELSE <<>>, x))

\* topic_by_id[topic['id']] = topic
StoreTopic(d, json) == DictSet(d, json.id, json)

KeepFirstComment(d, json) == IF DictHas(d, json.id) THEN d ELSE DictSet(d, json.id, json)

\* comment_by_id[comment['id']] = comment
StoreComment(d, json) == DictSet(d, json.id, json)

\* comment_ids_by_topic_id.setdefault(topic['id'], []).append(comment['id'])
AppendMember(d, topic_id, comment_id) == SetDefaultAppend(d, topic_id, comment_id)

PrependSample(d, comment_id, time, value) ==
    DictSet(d, comment_id,
            <<(<<time, value>>)>> \o (IF DictHas(d, comment_id) THEN DictGet(d, comment_id) ELSE <<>>))

OnlyLatestSample(d, comment_id, time, value) == DictSet(d, comment_id, <<(<<time, value>>)>>)

SkipRepeatedSample(d, comment_id, time, value) ==
    IF DictHas(d, comment_id) /\ DictGet(d, comment_id)[Len(DictGet(d, comment_id))][2] = value
    THEN d
    ELSE SetDefaultAppend(d, comment_id, <<time, value>>)

\* series.setdefault(comment['id'], []).append((commit.commit_time, value))
AppendSample(d, comment_id, time, value) == SetDefaultAppend(d, comment_id, <<time, value>>)

(***************************************************************************)
(* The entries the repository can deliver                                  *)
(***************************************************************************)
Without(json, field) == [f \in (DOMAIN json) \ {field} |-> json[f]]

NoJson == [none |-> TRUE]

CommitEvents ==
    {[type |-> "commit", time |-> t, decodes |-> TRUE, tree |-> TRUE, json |-> NoJson] :
        t \in 0..MaxTime}

WellFormedTopics ==
    [id : TopicIds, mediaTitle : 1..NumTitles, clauses : {<<>>}]

WellFormedComments ==
    [id : CommentIds, score : 0..MaxScore, repliesCount : 0..MaxReplies,
     text : {"text"}, replies : {<<>>}]

BaseTopic == [id |-> 1, mediaTitle |-> 1, clauses |-> <<>>]

BaseComment == [id |-> 1, score |-> 0, repliesCount |-> 0, text |-> "text", replies |-> <<>>]

TopicEvent(json, decodes, tree) ==
    [type |-> "topic", time |-> 0, decodes |-> decodes, tree |-> tree, json |-> json]

CommentEvent(json, decodes) ==
    [type |-> "comment", time |-> 0, decodes |-> decodes, tree |-> TRUE, json |-> json]

WellFormedTopicEvents == {TopicEvent(j, TRUE, TRUE) : j \in WellFormedTopics}

WellFormedCommentEvents == {CommentEvent(j, TRUE) : j \in WellFormedComments}

\* topic.json missing or not JSON, no comments tree, or one field missing
MalformedTopicEvents ==
    {TopicEvent(BaseTopic, FALSE, TRUE), TopicEvent(BaseTopic, TRUE, FALSE)}
    \cup {TopicEvent(Without(BaseTopic, f), TRUE, TRUE) : f \in DOMAIN BaseTopic}

\* a blob that is not JSON, or one field missing
MalformedCommentEvents ==
    {CommentEvent(BaseComment, FALSE)}
    \cup {CommentEvent(Without(BaseComment, f), TRUE) : f \in DOMAIN BaseComment}

\* The entries the walk may read next: the recorded ones when the history is
\* read again, any entry of `events` while the history is first discovered.
Deliver(events) ==
    IF walked < Len(history)
    THEN {history[walked + 1]} \cap events
    ELSE IF runs = 1 /\ Len(history) < MaxEvents THEN events ELSE {}

Delivered(e) == IF walked < Len(history) THEN history ELSE Append(history, e)

(***************************************************************************)
(* sorted(items, key=last sample value, reverse=True)                      *)
(***************************************************************************)
\* key = lambda id_and_series: id_and_series[1][-1][1]
LastSampleValue(item) == item.v[Len(item.v)][2]

InsertBeforeEqual(sorted, x) ==
    LET n == Cardinality({i \in DOMAIN sorted : sorted[i].key > x.key})
    IN  SubSeq(sorted, 1, n) \o <<x>> \o SubSeq(sorted, n + 1, Len(sorted))

\* x goes behind every element whose key is at least its own
InsertReverse(sorted, x) ==
    LET n == Cardinality({i \in DOMAIN sorted : sorted[i].key >= x.key})
    IN  SubSeq(sorted, 1, n) \o <<x>> \o SubSeq(sorted, n + 1, Len(sorted))

RECURSIVE SortKeyed(_)
SortKeyed(keyed) ==
    IF keyed = <<>> THEN <<>>
    ELSE InsertReverse(SortKeyed(SubSeq(keyed, 1, Len(keyed) - 1)), keyed[Len(keyed)])

\* sorted(items, key=..., reverse=True), keys[i] being the key of items[i]
SortedReverse(items, keys) ==
    LET keyed == [i \in DOMAIN items |-> [item |-> items[i], key |-> keys[i]]]
        s == SortKeyed(keyed)
    IN  [i \in DOMAIN s |-> s[i].item]

SortedByLastSample(d) == SortedReverse(d, [i \in DOMAIN d |-> LastSampleValue(d[i])])

\* sorted(comments, key=lambda comment: comment['score'], reverse=True)
SortedByScore(comments) ==
    SortedReverse(comments, [i \in DOMAIN comments |-> comments[i].score])

Range(s) == {s[i] : i \in DOMAIN s}

UnfilteredRanking(ranking, comment_ids) == ranking

\* [(comment_id, series) for comment_id, series in ranking if comment_id in comment_ids]
TopicRanking(ranking, comment_ids) ==
    SelectSeq(ranking, LAMBDA item : item.k \in Range(comment_ids))

\* the line of the first KeyError of: for comment in comments:
\*     comment['text'] ... comment['replies'], 0 if there is none
TextsFailure(comments, text_line, replies_line) ==
    LET bad == {i \in DOMAIN comments :
                  "text" \notin DOMAIN comments[i] \/ "replies" \notin DOMAIN comments[i]}
    IN  IF bad = {} THEN 0
        ELSE LET first == CHOOSE i \in bad : \A j \in bad : i <= j
             IN  IF "text" \notin DOMAIN comments[first] THEN text_line ELSE replies_line

File(name, id, complete) == [name |-> name, topic |-> id, complete |-> complete]

(***************************************************************************)
(* Initial state: the module is loaded and main has reached its walk       *)
(***************************************************************************)
Init ==
    /\ pc = "walk"
    /\ error = 0
    /\ runs = 1
    /\ history = <<>>
    /\ walked = 0
    /\ commit = <<>>
    /\ topic = <<>>
    /\ topic_by_id = <<>>
    /\ comment_by_id = <<>>
    /\ comment_ids_by_topic_id = <<>>
    /\ replies_by_comment_id = <<>>
    /\ scores_by_comment_id = <<>>
    /\ comments_sorted_by_replies = <<>>
    /\ comments_sorted_by_score = <<>>
    /\ reported = 0
    /\ views = <<>>
    /\ artifacts = <<>>
    /\ walk_results = <<>>

(***************************************************************************)
(* The walk, lines 105-125                                                 *)
(***************************************************************************)
\* for commit in repo.walk(...): comment_ids_by_topic_id = {}
WalkCommit ==
    /\ pc = "walk"
    /\ \E e \in Deliver(CommitEvents) :
        /\ history' = Delivered(e)
        /\ commit' = <<e.time>>
    /\ walked' = walked + 1
    /\ topic' = <<>>
    /\ comment_ids_by_topic_id' = <<>>
    /\ UNCHANGED <<pc, error, runs, topic_by_id, comment_by_id,
                   replies_by_comment_id, scores_by_comment_id,
                   comments_sorted_by_replies, comments_sorted_by_score,
                   reported, views, artifacts, walk_results>>

\* for entry in commit.tree: lines 108-116
WalkTopic(events) ==
    /\ pc = "walk"
    /\ commit # <<>>
    /\ \E e \in Deliver(events) :
        LET failure == IF ~e.decodes THEN 112
                       ELSE IF "id" \notin DOMAIN e.json THEN 113
                       ELSE IF ~e.tree THEN 116
                       ELSE 0
        IN  /\ history' = Delivered(e)
            /\ error' = failure
            /\ pc' = IF failure = 0 THEN "walk" ELSE "error"
            /\ topic' = IF failure \in {112, 113} THEN topic ELSE <<e.json>>
            /\ topic_by_id' = IF failure \in {112, 113} THEN topic_by_id
                              ELSE StoreTopic(topic_by_id, e.json)
    /\ walked' = walked + 1
    /\ UNCHANGED <<runs, commit, comment_by_id, comment_ids_by_topic_id,
                   replies_by_comment_id, scores_by_comment_id,
                   comments_sorted_by_replies, comments_sorted_by_score,
                   reported, views, artifacts, walk_results>>

\* for comment_entry in comments_tree: lines 118-125
WalkComment(events) ==
    /\ pc = "walk"
    /\ topic # <<>>
    /\ \E e \in Deliver(events) :
        LET comment == e.json
            failure == IF ~e.decodes THEN 119
                       ELSE IF "id" \notin DOMAIN comment THEN 122
                       ELSE IF "repliesCount" \notin DOMAIN comment THEN 124
                       ELSE IF "score" \notin DOMAIN comment THEN 125
                       ELSE 0
        IN  /\ history' = Delivered(e)
            /\ error' = failure
            /\ pc' = IF failure = 0 THEN "walk" ELSE "error"
            /\ comment_by_id' =
                 IF failure \in {119, 122} THEN comment_by_id
                 ELSE StoreComment(comment_by_id, comment)
            /\ comment_ids_by_topic_id' =
                 IF failure \in {119, 122} THEN comment_ids_by_topic_id
                 ELSE AppendMember(comment_ids_by_topic_id, topic[1].id, comment.id)
            /\ replies_by_comment_id' =
                 IF failure \in {119, 122, 124} THEN replies_by_comment_id
                 ELSE AppendSample(replies_by_comment_id, comment.id,
                                   commit[1], comment.repliesCount)
            /\ scores_by_comment_id' =
                 IF failure # 0 THEN scores_by_comment_id
                 ELSE AppendSample(scores_by_comment_id, comment.id,
                                   commit[1], comment.score)
    /\ walked' = walked + 1
    /\ UNCHANGED <<runs, commit, topic, topic_by_id,
                   comments_sorted_by_replies, comments_sorted_by_score,
                   reported, views, artifacts, walk_results>>

\* the walk is over; lines 127-136
EndWalk ==
    /\ pc = "walk"
    /\ walked = Len(history)
    /\ pc' = "report"
    /\ comments_sorted_by_replies' = SortedByLastSample(replies_by_comment_id)
    /\ comments_sorted_by_score' = SortedByLastSample(scores_by_comment_id)
    /\ walk_results' = Append(walk_results,
          [topic_by_id |-> topic_by_id,
           comment_by_id |-> comment_by_id,
           replies_by_comment_id |-> replies_by_comment_id,
           scores_by_comment_id |-> scores_by_comment_id])
    /\ UNCHANGED <<error, runs, history, walked, commit, topic, topic_by_id,
                   comment_by_id, comment_ids_by_topic_id, replies_by_comment_id,
                   scores_by_comment_id, reported, views, artifacts>>

(***************************************************************************)
(* One iteration of: for topic in topic_by_id.values(), lines 138-269      *)
(***************************************************************************)
ReportTopic ==
    /\ pc = "report"
    /\ reported < Len(topic_by_id)
    /\ LET t == topic_by_id[reported + 1].v
           known == DictHas(comment_ids_by_topic_id, t.id)
           comment_ids == IF known THEN DictGet(comment_ids_by_topic_id, t.id) ELSE <<>>
           comments == [i \in DOMAIN comment_ids |-> DictGet(comment_by_id, comment_ids[i])]
           texts == TextsFailure(comments, 204, 205)
           failure == IF ~known THEN 139
                      ELSE IF texts # 0 THEN texts
                      ELSE IF "clauses" \notin DOMAIN t THEN 258
                      ELSE IF "mediaTitle" \notin DOMAIN t THEN 267
                      ELSE 0
           charts == <<File("topic-scores.png", t.id, TRUE),
                       File("topic-replies.png", t.id, TRUE)>>
           clouds == <<File("topic-comments-word-cloud.png", t.id, TRUE),
                       File("topic-replies-word-cloud.png", t.id, TRUE)>>
       IN  /\ error' = failure
           /\ pc' = IF failure = 0 THEN "report" ELSE "error"
           /\ reported' = IF failure = 0 THEN reported + 1 ELSE reported
           /\ views' = IF ~known THEN views
                       ELSE Append(views,
                              [topic |-> t.id,
                               comment_ids |-> comment_ids,
                               comments |-> SortedByScore(comments),
                               topic_comments_sorted_by_score |->
                                   TopicRanking(comments_sorted_by_score, comment_ids),
                               topic_comments_sorted_by_replies |->
                                   TopicRanking(comments_sorted_by_replies, comment_ids)])
           /\ artifacts' =
                IF failure = 139 THEN artifacts
                ELSE IF failure \in {204, 205} THEN artifacts \o charts
                ELSE artifacts \o charts \o clouds
                       \o <<File("topic.html", t.id, failure = 0)>>
    /\ UNCHANGED <<runs, history, walked, commit, topic, topic_by_id,
                   comment_by_id, comment_ids_by_topic_id, replies_by_comment_id,
                   scores_by_comment_id, comments_sorted_by_replies,
                   comments_sorted_by_score, walk_results>>

(***************************************************************************)
(* The main page, lines 271-376                                            *)
(***************************************************************************)
MainPage ==
    /\ pc = "report"
    /\ reported = Len(topic_by_id)
    /\ LET comments == SortedByScore([i \in DOMAIN comment_by_id |-> comment_by_id[i].v])
           texts == TextsFailure(comments, 323, 324)
           failure == IF texts # 0 THEN texts
                      ELSE IF \E i \in DOMAIN topic_by_id :
                                  "mediaTitle" \notin DOMAIN topic_by_id[i].v
                           THEN 373
                      ELSE 0
           charts == <<File("scores.png", 0, TRUE), File("replies.png", 0, TRUE)>>
           clouds == <<File("comments-word-cloud.png", 0, TRUE),
                       File("replies-word-cloud.png", 0, TRUE)>>
       IN  /\ error' = failure
           /\ pc' = IF failure = 0 THEN "done" ELSE "error"
           /\ artifacts' =
                IF failure \in {323, 324} THEN artifacts \o charts
                ELSE artifacts \o charts \o clouds
                       \o <<File("index.html", 0, failure = 0)>>
    /\ UNCHANGED <<runs, history, walked, commit, topic, topic_by_id,
                   comment_by_id, comment_ids_by_topic_id, replies_by_comment_id,
                   scores_by_comment_id, comments_sorted_by_replies,
                   comments_sorted_by_score, reported, views, walk_results>>

(***************************************************************************)
(* A further call of main in the same process: lines 102-104 start from    *)
(* empty stores, the module-level series of lines 63-64 are what the       *)
(* earlier call left.                                                      *)
(***************************************************************************)
MainAgain ==
    /\ pc \in {"done", "error"}
    /\ runs < MaxRuns
    /\ runs' = runs + 1
    /\ pc' = "walk"
    /\ error' = 0
    /\ walked' = 0
    /\ commit' = <<>>
    /\ topic' = <<>>
    /\ topic_by_id' = <<>>
    /\ comment_by_id' = <<>>
    /\ comment_ids_by_topic_id' = <<>>
    /\ comments_sorted_by_replies' = <<>>
    /\ comments_sorted_by_score' = <<>>
    /\ reported' = 0
    /\ views' = <<>>
    /\ UNCHANGED <<history, replies_by_comment_id, scores_by_comment_id,
                   artifacts, walk_results>>

(***************************************************************************)
(* Specifications                                                          *)
(***************************************************************************)
\* one call of main (lines 381-382) on a repository of well-formed entries
Next ==
    \/ WalkCommit
    \/ WalkTopic(WellFormedTopicEvents)
    \/ WalkComment(WellFormedCommentEvents)
    \/ EndWalk
    \/ ReportTopic
    \/ MainPage

Spec == Init /\ [][Next]_vars

\* one call of main on a repository that may hold malformed entries
NextMalformed ==
    \/ WalkCommit
    \/ WalkTopic(WellFormedTopicEvents \cup MalformedTopicEvents)
    \/ WalkComment(WellFormedCommentEvents \cup MalformedCommentEvents)
    \/ EndWalk
    \/ ReportTopic
    \/ MainPage

SpecMalformed == Init /\ [][NextMalformed]_vars

\* main called again in the same process on the same well-formed repository
NextTwice == Next \/ MainAgain

SpecTwice == Init /\ [][NextTwice]_vars

TypeOK ==
    /\ pc \in {"walk", "report", "done", "error"}
    /\ runs \in 1..MaxRuns
    /\ walked \in 0..Len(history)
    /\ Len(history) <= MaxEvents
    /\ reported \in 0..Len(topic_by_id)
    /\ (error = 0) = (pc # "error")

(***************************************************************************)
(* What the walked history says, independently of the stores               *)
(***************************************************************************)
Max(S) == CHOOSE x \in S : \A y \in S : y <= x

Min(S) == CHOOSE x \in S : \A y \in S : x <= y

Last(s) == s[Len(s)]

IsPrefix(s, t) == Len(s) <= Len(t) /\ SubSeq(t, 1, Len(s)) = s

\* positions of the topic.json entries carrying topic id t
TopicEntries(t) ==
    {i \in DOMAIN history : history[i].type = "topic" /\ history[i].json.id = t}

\* positions of the comment blobs carrying comment id c
CommentEntries(c) ==
    {i \in DOMAIN history : history[i].type = "comment" /\ history[i].json.id = c}

\* the commit (snapshot) an entry belongs to, as its position in history
CommitOf(i) == Max({j \in 1..i : history[j].type = "commit"})

\* the topic id of the topic tree a comment blob lies in
TopicOf(i) == history[Max({j \in 1..i : history[j].type = "topic"})].json.id

InOrder(S) == SelectSeq([i \in DOMAIN history |-> i], LAMBDA i : i \in S)

\* the samples the history holds for comment c and one metric, in walk order
SamplesOf(c, field) ==
    LET at == InOrder(CommentEntries(c))
    IN  [n \in DOMAIN at |-> <<history[CommitOf(at[n])].time, history[at[n]].json[field]>>]

\* the comment ids under topic t in the last snapshot that contains t
MembersInLastSnapshot(t) ==
    LET last == Max({CommitOf(i) : i \in TopicEntries(t)})
        at == InOrder({i \in DOMAIN history :
                         /\ history[i].type = "comment"
                         /\ CommitOf(i) = last
                         /\ TopicOf(i) = t})
    IN  [n \in DOMAIN at |-> history[at[n]].json.id]

CommitTimes ==
    LET at == InOrder({i \in DOMAIN history : history[i].type = "commit"})
    IN  [n \in DOMAIN at |-> history[at[n]].time]

NonDecreasing(s) == \A i, j \in DOMAIN s : i <= j => s[i] <= s[j]

HistoryMalformed ==
    \E i \in DOMAIN history :
        history[i] \in MalformedTopicEvents \cup MalformedCommentEvents

C2_OneSamplePerSnapshot ==
    \A c \in CommentIds :
        LET snapshots == Cardinality({CommitOf(i) : i \in CommentEntries(c)})
        IN  IF snapshots = 0
            THEN ~DictHas(scores_by_comment_id, c) /\ ~DictHas(replies_by_comment_id, c)
            ELSE /\ DictHas(scores_by_comment_id, c)
                 /\ DictHas(replies_by_comment_id, c)
                 /\ Len(DictGet(scores_by_comment_id, c)) = snapshots
                 /\ Len(DictGet(replies_by_comment_id, c)) = snapshots

(***************************************************************************)
(* C2, amended: both series of a comment id have as many samples as there  *)
(* are comment blobs carrying the id in the walked history (one per        *)
(* listing, so two for an id listed twice in one snapshot).                *)
(***************************************************************************)
C2_OneSamplePerEntry ==
    \A c \in CommentIds :
        LET entries == Cardinality(CommentEntries(c))
        IN  IF entries = 0
            THEN ~DictHas(scores_by_comment_id, c) /\ ~DictHas(replies_by_comment_id, c)
            ELSE /\ DictHas(scores_by_comment_id, c)
                 /\ DictHas(replies_by_comment_id, c)
                 /\ Len(DictGet(scores_by_comment_id, c)) = entries
                 /\ Len(DictGet(replies_by_comment_id, c)) = entries

\* a comment id listed under two topic trees of one snapshot: two samples
C2_Witness ==
    \E c \in CommentIds :
        /\ Cardinality({TopicOf(i) : i \in CommentEntries(c)}) = 2
        /\ Cardinality({CommitOf(i) : i \in CommentEntries(c)}) = 1
        /\ Len(DictGet(scores_by_comment_id, c)) = 2
        /\ Len(DictGet(replies_by_comment_id, c)) = 2

(***************************************************************************)
(* C10: the comment ids of comment_by_id, of scores_by_comment_id and of   *)
(* replies_by_comment_id are the same set, no series is empty, and each    *)
(* record's score and repliesCount are the values of the last samples.     *)
(***************************************************************************)
C10_StoreMatchesSeries ==
    /\ DictKeys(comment_by_id) = DictKeys(scores_by_comment_id)
    /\ DictKeys(comment_by_id) = DictKeys(replies_by_comment_id)
    /\ \A c \in DictKeys(comment_by_id) :
         /\ DictGet(scores_by_comment_id, c) # <<>>
         /\ DictGet(replies_by_comment_id, c) # <<>>
         /\ DictGet(comment_by_id, c).score = Last(DictGet(scores_by_comment_id, c))[2]
         /\ DictGet(comment_by_id, c).repliesCount = Last(DictGet(replies_by_comment_id, c))[2]

\* a comment seen twice with a different score and a different reply count
C10_Witness ==
    \E c \in DictKeys(comment_by_id) :
        LET scores == DictGet(scores_by_comment_id, c)
            replies == DictGet(replies_by_comment_id, c)
        IN  /\ Len(scores) = 2
            /\ scores[1][2] # scores[2][2]
            /\ replies[1][2] # replies[2][2]
            /\ DictGet(comment_by_id, c).score = scores[2][2]

(***************************************************************************)
(* C3: each global ranking is a permutation of the comment ids that have   *)
(* a series, each with its series, in descending order of the last sample  *)
(* value; of two comments with equal last values the one first seen in     *)
(* the walk comes first.                                                   *)
(***************************************************************************)
FirstSeen(c) == Min(CommentEntries(c))

IsRankingOf(ranking, series) ==
    /\ Len(ranking) = Len(series)
    /\ {ranking[i].k : i \in DOMAIN ranking} = DictKeys(series)
    /\ \A i \in DOMAIN ranking : ranking[i].v = DictGet(series, ranking[i].k)
    /\ \A i, j \in DOMAIN ranking :
         i < j =>
           \/ Last(ranking[i].v)[2] > Last(ranking[j].v)[2]
           \/ /\ Last(ranking[i].v)[2] = Last(ranking[j].v)[2]
              /\ FirstSeen(ranking[i].k) < FirstSeen(ranking[j].k)

C3_RankedByLastSample ==
    pc # "walk" =>
        /\ IsRankingOf(comments_sorted_by_score, scores_by_comment_id)
        /\ IsRankingOf(comments_sorted_by_replies, replies_by_comment_id)

\* two comments tied on their last score, the one with the larger id seen
\* first and ranked first, its first sample differing from its last
C3_Witness ==
    /\ pc = "report"
    /\ Len(comments_sorted_by_score) = 2
    /\ LET a == comments_sorted_by_score[1]
           b == comments_sorted_by_score[2]
       IN  /\ Last(a.v)[2] = Last(b.v)[2]
           /\ a.k > b.k
           /\ a.v[1][2] # Last(a.v)[2]

(***************************************************************************)
(* C4: after the walk every topic of topic_by_id has a membership list in  *)
(* comment_ids_by_topic_id, and it is the list of the comment ids found    *)
(* under the topic in the last snapshot that contained the topic.          *)
(***************************************************************************)
C4_MembershipOfLastSnapshot ==
    pc = "report" =>
        \A t \in DictKeys(topic_by_id) :
            /\ DictHas(comment_ids_by_topic_id, t)
            /\ DictGet(comment_ids_by_topic_id, t) = MembersInLastSnapshot(t)

(***************************************************************************)
(* C5: a step leaves every series as a prefix of its new value and leaves  *)
(* alone the series of every comment it does not read; each series is the  *)
(* sequence of the samples of its comment in walk order, equal             *)
(* consecutive samples included; when the commit times of the history are  *)
(* non-decreasing, so are the times of every series.                       *)
(***************************************************************************)
SeriesGrow(series, series_after) ==
    \A c \in DictKeys(series) :
        /\ DictHas(series_after, c)
        /\ IsPrefix(DictGet(series, c), DictGet(series_after, c))
        /\ \/ DictGet(series_after, c) = DictGet(series, c)
           \/ /\ Len(history') = Len(history) + 1
              /\ Last(history').type = "comment"
              /\ Last(history').json.id = c

SeriesFollowHistory(series, field) ==
    \A c \in CommentIds :
        IF CommentEntries(c) = {} THEN ~DictHas(series, c)
        ELSE DictHas(series, c) /\ DictGet(series, c) = SamplesOf(c, field)

TimesNonDecreasing(series) ==
    \A c \in DictKeys(series) :
        NonDecreasing([n \in DOMAIN DictGet(series, c) |-> DictGet(series, c)[n][1]])

C5_SeriesAppendOnly ==
    /\ [][/\ SeriesGrow(scores_by_comment_id, scores_by_comment_id')
          /\ SeriesGrow(replies_by_comment_id, replies_by_comment_id')]_vars
    /\ [](/\ SeriesFollowHistory(scores_by_comment_id, "score")
          /\ SeriesFollowHistory(replies_by_comment_id, "repliesCount"))
    /\ [](NonDecreasing(CommitTimes) =>
            /\ TimesNonDecreasing(scores_by_comment_id)
            /\ TimesNonDecreasing(replies_by_comment_id))

\* a comment seen in two snapshots, the second later than the first, with
\* the same score: both samples are kept, in that order
C5_Witness ==
    /\ NonDecreasing(CommitTimes)
    /\ \E i \in DOMAIN scores_by_comment_id :
         LET scores == scores_by_comment_id[i].v
         IN  /\ Len(scores) = 2
             /\ scores[1][2] = scores[2][2]
             /\ scores[1][1] < scores[2][1]

(***************************************************************************)
(* C6: when the history holds a malformed entry the run does not complete  *)
(* and no file at all is written.                                          *)
(***************************************************************************)
C6_NothingEmittedWhenMalformed ==
    HistoryMalformed => (pc # "done" /\ artifacts = <<>>)

(***************************************************************************)
(* C7: a run over well-formed snapshots ends having written exactly one    *)
(* page for every topic of topic_by_id and one main page.                  *)
(***************************************************************************)
Written(name, id) ==
    Cardinality({i \in DOMAIN artifacts : artifacts[i] = File(name, id, TRUE)})

C7_EveryReportWritten ==
    pc \in {"done", "error"} =>
        /\ pc = "done"
        /\ \A t \in DictKeys(topic_by_id) : Written("topic.html", t) = 1
        /\ Written("index.html", 0) = 1

(***************************************************************************)
(* C8: two calls of main on the same history leave their walks with the    *)
(* same topic_by_id, comment_by_id and series.                             *)
(***************************************************************************)
C8_SecondWalkSameStores ==
    Len(walk_results) = 2 => walk_results[1] = walk_results[2]

(***************************************************************************)
(* C9: each per-topic ranking consists of exactly the entries of the       *)
(* global ranking whose comment id is in the topic's comment_ids, in the   *)
(* order the global ranking has them.                                      *)
(***************************************************************************)
PositionIn(ranking, c) == CHOOSE i \in DOMAIN ranking : ranking[i].k = c

IsFilteredView(view, ranking, comment_ids) ==
    /\ \A i \in DOMAIN view : \E j \in DOMAIN ranking : view[i] = ranking[j]
    /\ {view[i].k : i \in DOMAIN view}
         = {ranking[j].k : j \in DOMAIN ranking} \cap Range(comment_ids)
    /\ \A i, j \in DOMAIN view :
         i < j => PositionIn(ranking, view[i].k) < PositionIn(ranking, view[j].k)

C9_TopicRankingFiltersGlobal ==
    \A n \in DOMAIN views :
        /\ IsFilteredView(views[n].topic_comments_sorted_by_score,
                          comments_sorted_by_score, views[n].comment_ids)
        /\ IsFilteredView(views[n].topic_comments_sorted_by_replies,
                          comments_sorted_by_replies, views[n].comment_ids)

\* a topic whose ranking keeps one of the two globally ranked comments
C9_Witness ==
    \E n \in DOMAIN views :
        /\ Len(comments_sorted_by_score) = 2
        /\ Len(views[n].topic_comments_sorted_by_score) = 1
        /\ Len(views[n].topic_comments_sorted_by_replies) = 1

====
